---- MODULE Spec2Model ----
(***************************************************************************)
(* Asset definitions of dagster/core/asset_defs: port inference            *)
(* (decorators.py) and AssetsDefinition (assets.py).                       *)
(*                                                                         *)
(* Conventions.                                                            *)
(*   - a name (parameter, port) is a string; an AssetKey is its path, a    *)
(*     sequence of strings;                                                *)
(*   - Optional[X] is a sequence of length 0 (None) or 1 (the value);      *)
(*   - a Python dict whose order can be observed is a sequence of          *)
(*     <<key, value>> pairs with distinct keys, in insertion order;        *)
(*   - a Python set that is iterated is iterated in an order the caller of *)
(*     the operator supplies (hash order is not fixed by the program);     *)
(*   - a call either returns or raises: [status |-> "ok", value |-> v] or  *)
(*     [status |-> "raise", error |-> e].                                  *)
(***************************************************************************)
EXTENDS Integers, Sequences, FiniteSets, TLC

VARIABLES
    call,   \* the last call made and what it gave back
    defs,   \* the AssetsDefinition objects constructed so far, oldest first
    heap,   \* the partition-mapping dict objects the definitions refer to
    log     \* log[i]: how defs[i] was constructed

vars == <<call, defs, heap, log>>

(***************************************************************************)
(* Bounds                                                                  *)
(***************************************************************************)
MaxParams == 3
MaxOverrides == 1
MaxOuts == 2
MaxDefs == 3

(***************************************************************************)
(* Python values                                                           *)
(***************************************************************************)
None == <<>>
Some(v) == <<v>>

Ok(v) == [status |-> "ok", value |-> v]
Raise(e) == [status |-> "raise", error |-> e]

\* dict: insertion-ordered sequence of <<key, value>> pairs
DictKeys(d) == {d[i][1] : i \in DOMAIN d}
DictHas(d, k) == k \in DictKeys(d)
DictGet(d, k, default) ==
    IF DictHas(d, k) THEN d[CHOOSE i \in DOMAIN d : d[i][1] = k][2] ELSE default
\* d[k] = v: an existing key keeps its position and takes the new value
DictSet(d, k, v) ==
    IF DictHas(d, k)
    THEN [i \in DOMAIN d |-> IF d[i][1] = k THEN <<k, v>> ELSE d[i]]
    ELSE Append(d, <<k, v>>)
\* dict(items): later items overwrite earlier ones with the same key
RECURSIVE DictFromItems(_, _)
DictFromItems(d, items) ==
    IF items = <<>> THEN d
    ELSE DictFromItems(DictSet(d, Head(items)[1], Head(items)[2]), Tail(items))

SeqSet(s) == {s[i] : i \in DOMAIN s}
\* the orders in which a set can be iterated
Orders(S) ==
    {s \in [1..Cardinality(S) -> S] : \A i, j \in 1..Cardinality(S) : i # j => s[i] # s[j]}
\* sequences of distinct elements of S, of length at most n
DistinctSeqs(S, n) ==
    UNION {Orders(T) : T \in {U \in SUBSET S : Cardinality(U) <= n}}
\* dicts with keys in K and values in V, of at most n entries, in every order
Dicts(K, V, n) ==
    UNION {{[i \in DOMAIN ks |-> <<ks[i], vs[i]>>] : vs \in [DOMAIN ks -> V]} :
           ks \in DistinctSeqs(K, n)}

\* list(filter(None, xs)) on a list of strings
FilterNone(xs) == SelectSeq(xs, LAMBDA s : s # "")

\* "_".join(path)
RECURSIVE JoinUnderscore(_)
JoinUnderscore(path) ==
    IF path = <<>> THEN ""
    ELSE IF Len(path) = 1 THEN path[1]
    ELSE path[1] \o "_" \o JoinUnderscore(Tail(path))

DagsterInvalidDefinitionError == "DagsterInvalidDefinitionError"
CheckError == "CheckError"
KeyError == "KeyError"

(***************************************************************************)
(* decorators.py: input port inference                                     *)
(***************************************************************************)
\* dagster.core.decorator_utils: the conventional spellings of a parameter
get_valid_name_permutations(param_name) ==
    {"_", param_name, "_" \o param_name, param_name \o "_"}

_get_input_param_names(fn_params) ==
    LET is_context_provided ==
            /\ Len(fn_params) > 0
            /\ fn_params[1] \in get_valid_name_permutations("context")
    IN  IF is_context_provided THEN Tail(fn_params) ELSE fn_params

\* In(...): the port descriptor; Nothing marks a port that receives no value
In(dagster_type) == [dagster_type |-> dagster_type]

\* one round of the loop over all_input_names (decorators.py 468-489)
InsStep(ins, input_name, asset_namespace, asset_ins) ==
    LET given == input_name \in DOMAIN asset_ins
        asset_key == IF given THEN asset_ins[input_name].asset_key ELSE None
        namespace == IF given THEN asset_ins[input_name].namespace ELSE None
        prefix == IF namespace # <<>> THEN namespace
                  ELSE IF asset_namespace # <<>> THEN asset_namespace
                  ELSE <<>>
        key == IF asset_key # None THEN asset_key[1]
               ELSE FilterNone(prefix \o <<input_name>>)
    IN  DictSet(ins, key, <<input_name, In("Any")>>)

RECURSIVE InsLoop(_, _, _, _)
InsLoop(ins, order, asset_namespace, asset_ins) ==
    IF order = <<>> THEN ins
    ELSE InsLoop(InsStep(ins, Head(order), asset_namespace, asset_ins),
                 Tail(order), asset_namespace, asset_ins)

\* the loop over non_argument_deps (decorators.py 491-493)
RECURSIVE DepsLoop(_, _)
DepsLoop(ins, deps_order) ==
    IF deps_order = <<>> THEN ins
    ELSE DepsLoop(DictSet(ins, Head(deps_order),
                          <<JoinUnderscore(Head(deps_order)), In("Nothing")>>),
                  Tail(deps_order))

\* build_asset_ins with the override names checked against all_input_names
\* (which holds them already) instead of input_param_names
build_asset_ins_checks_all(fn_params, asset_namespace, asset_ins, names_order, deps_order) ==
    LET all_input_names ==
            SeqSet(_get_input_param_names(fn_params)) \cup DOMAIN asset_ins
    IN  IF \E in_key \in DOMAIN asset_ins : in_key \notin all_input_names
        THEN Raise(DagsterInvalidDefinitionError)
        ELSE Ok(DepsLoop(InsLoop(<<>>, names_order, asset_namespace, asset_ins),
                         deps_order))

\* asset_ins: name -> AssetIn, a function (its order is not observable);
\* names_order, deps_order: the iteration orders of the two sets
build_asset_ins(fn_params, asset_namespace, asset_ins, names_order, deps_order) ==
    LET input_param_names == _get_input_param_names(fn_params)
    IN  IF \E in_key \in DOMAIN asset_ins : in_key \notin SeqSet(input_param_names)
        THEN Raise(DagsterInvalidDefinitionError)
        ELSE Ok(DepsLoop(InsLoop(<<>>, names_order, asset_namespace, asset_ins),
                         deps_order))

\* op_def: [params, ins, outs]; asset_key_by_input_name: name -> key.
\* The result is a dict keyed by name and filled in the iteration order of a
\* set; no key can be written twice, so it is given as a function.
_infer_asset_key_by_input_name(op_def, asset_key_by_input_name) ==
    LET input_param_names == _get_input_param_names(op_def.params)
        all_input_names == SeqSet(input_param_names) \cup op_def.ins
    IN  IF \E in_key \in DOMAIN asset_key_by_input_name :
               in_key \notin SeqSet(input_param_names)
        THEN Raise(DagsterInvalidDefinitionError)
        ELSE Ok([input_name \in all_input_names |->
                    IF input_name \in DOMAIN asset_key_by_input_name
                    THEN asset_key_by_input_name[input_name]
                    ELSE <<input_name>>])

(***************************************************************************)
(* decorators.py: output port inference                                    *)
(***************************************************************************)
\* the second loop of _infer_asset_key_by_output_name (decorators.py 416-418)
RECURSIVE InferOutsLoop(_, _)
InferOutsLoop(inferred, op_outs) ==
    IF op_outs = <<>> THEN inferred
    ELSE InferOutsLoop(IF DictHas(inferred, Head(op_outs)) THEN inferred
                       ELSE DictSet(inferred, Head(op_outs), <<Head(op_outs)>>),
                       Tail(op_outs))

\* asset_key_by_output_name: dict name -> key; op_def.outs: the declared names
_infer_asset_key_by_output_name(op_def, asset_key_by_output_name) ==
    IF \E output_name \in DictKeys(asset_key_by_output_name) :
           output_name \notin SeqSet(op_def.outs)
    THEN Raise(DagsterInvalidDefinitionError)
    ELSE Ok(InferOutsLoop(asset_key_by_output_name, op_def.outs))

\* outs: dict name -> Out, an Out being [asset_key : Optional key];
\* out_name_to_asset_key: Optional dict name -> key
build_asset_outs(op_name, outs, asset_ins, out_name_to_asset_key) ==
    LET \* computed at decorators.py 431-434 and never read afterwards
        asset_keys_by_out_name ==
            [i \in DOMAIN outs |->
                <<outs[i][1],
                  IF outs[i][2].asset_key # None THEN outs[i][2].asset_key[1]
                  ELSE <<outs[i][1]>> >>]
        table ==
            IF out_name_to_asset_key = None \/ out_name_to_asset_key[1] = <<>>
            THEN [i \in DOMAIN outs |-> <<outs[i][1], <<outs[i][1]>> >>]
            ELSE out_name_to_asset_key[1]
    IN  DictFromItems(<<>>,
            [i \in DOMAIN table |->
                <<table[i][2], <<table[i][1], DictGet(outs, table[i][1], None)>> >>])

(***************************************************************************)
(* assets.py: AssetsDefinition                                             *)
(*                                                                         *)
(* objs = [defs, heap] is the object store: defs[i] is the i-th            *)
(* AssetsDefinition object, heap[r] the dict object that a definition's    *)
(* _partition_mappings field refers to (asset key -> PartitionMapping).    *)
(* A method takes the store and gives back the store it leaves behind.     *)
(* An op is known by its ports: [input_dict, output_dict], sets of names;  *)
(* an input or output definition by its name.                              *)
(***************************************************************************)
\* OpDefinition.with_replaced_asset_keys: the computation's own substituted
\* copy; it declares the same ports
OpWithReplacedAssetKeys(op, output_asset_key_replacements, input_asset_key_replacements) ==
    op

\* PartitionsDefinition.get_default_partition_mapping
get_default_partition_mapping(partitions_def) == "default"

\* AssetsDefinition(...) with the output names stored as they come, not
\* looked up in op.output_dict
AssetsDefinition__init__outputs_unchecked(objs, input_names_by_asset_key, output_names_by_asset_key, op, partitions_def, partition_mappings) ==
    IF \E i \in DOMAIN input_names_by_asset_key :
           input_names_by_asset_key[i][2] \notin op.input_dict
    THEN Raise(KeyError)
    ELSE
    LET fresh == \/ partition_mappings = None
                 \/ DOMAIN objs.heap[partition_mappings[1]] = {}
        heap1 == IF fresh THEN Append(objs.heap, <<>>) ELSE objs.heap
        ref == IF fresh THEN Len(heap1) ELSE partition_mappings[1]
        self == [op |-> op,
                 input_defs_by_asset_key |->
                     [i \in DOMAIN input_names_by_asset_key |->
                         <<input_names_by_asset_key[i][1],
                           [name |-> input_names_by_asset_key[i][2]]>>],
                 output_defs_by_asset_key |->
                     [i \in DOMAIN output_names_by_asset_key |->
                         <<output_names_by_asset_key[i][1],
                           [name |-> output_names_by_asset_key[i][2]]>>],
                 partitions_def |-> partitions_def,
                 partition_mappings |-> ref]
    IN  Ok([objs |-> [defs |-> Append(objs.defs, self), heap |-> heap1],
            ref |-> Len(objs.defs) + 1])

\* AssetsDefinition(...): partition_mappings is an Optional reference into
\* the heap
AssetsDefinition__init__(objs, input_names_by_asset_key, output_names_by_asset_key, op, partitions_def, partition_mappings) ==
    IF \/ \E i \in DOMAIN input_names_by_asset_key :
              input_names_by_asset_key[i][2] \notin op.input_dict
       \/ \E i \in DOMAIN output_names_by_asset_key :
              output_names_by_asset_key[i][2] \notin op.output_dict
    THEN Raise(KeyError)
    ELSE
    LET \* partition_mappings or {}
        fresh == \/ partition_mappings = None
                 \/ DOMAIN objs.heap[partition_mappings[1]] = {}
        heap1 == IF fresh THEN Append(objs.heap, <<>>) ELSE objs.heap
        ref == IF fresh THEN Len(heap1) ELSE partition_mappings[1]
        self == [op |-> op,
                 input_defs_by_asset_key |->
                     [i \in DOMAIN input_names_by_asset_key |->
                         <<input_names_by_asset_key[i][1],
                           [name |-> input_names_by_asset_key[i][2]]>>],
                 output_defs_by_asset_key |->
                     [i \in DOMAIN output_names_by_asset_key |->
                         <<output_names_by_asset_key[i][1],
                           [name |-> output_names_by_asset_key[i][2]]>>],
                 partitions_def |-> partitions_def,
                 partition_mappings |-> ref]
    IN  Ok([objs |-> [defs |-> Append(objs.defs, self), heap |-> heap1],
            ref |-> Len(objs.defs) + 1])

\* asset_key without its check of the number of keys
asset_key_first(objs, self) ==
    Ok(objs.defs[self].output_defs_by_asset_key[1][1])

\* the asset_key property
asset_key(objs, self) ==
    LET outs == objs.defs[self].output_defs_by_asset_key
    IN  IF Len(outs) = 1 THEN Ok(outs[1][1]) ELSE Raise(CheckError)

\* get_partition_mapping without its check that the asset is partitioned
get_partition_mapping_unchecked(objs, self, in_asset_key) ==
    LET d == objs.defs[self]
        mappings == objs.heap[d.partition_mappings]
    IN  Ok(IF in_asset_key \in DOMAIN mappings THEN mappings[in_asset_key]
           ELSE "default")

get_partition_mapping(objs, self, in_asset_key) ==
    LET d == objs.defs[self]
        mappings == objs.heap[d.partition_mappings]
    IN  IF d.partitions_def = None THEN Raise(CheckError)
        ELSE Ok(IF in_asset_key \in DOMAIN mappings THEN mappings[in_asset_key]
                ELSE get_default_partition_mapping(d.partitions_def[1]))

\* replacements.get(key, key)
Replaced(replacements, key) ==
    IF key \in DOMAIN replacements THEN replacements[key] ELSE key

\* the comprehension with a filter: {... for key, d in ... if key in replacements}
ReplacedNames_only_listed(defs_by_asset_key, replacements) ==
    LET listed == SelectSeq(defs_by_asset_key,
                            LAMBDA item : item[1] \in DOMAIN replacements)
    IN  DictFromItems(<<>>,
            [i \in DOMAIN listed |->
                <<Replaced(replacements, listed[i][1]), listed[i][2].name>>])

\* a dict comprehension {replacements.get(key, key): d.name for key, d in ...}
ReplacedNames(defs_by_asset_key, replacements) ==
    DictFromItems(<<>>,
        [i \in DOMAIN defs_by_asset_key |->
            <<Replaced(replacements, defs_by_asset_key[i][1]),
              defs_by_asset_key[i][2].name>>])

\* with_replaced_asset_keys, but renaming the receiver's own dicts too
with_replaced_asset_keys_in_place(objs, self, output_asset_key_replacements, input_asset_key_replacements) ==
    LET d == objs.defs[self]
        r == AssetsDefinition__init__(
                objs,
                ReplacedNames(d.input_defs_by_asset_key, input_asset_key_replacements),
                ReplacedNames(d.output_defs_by_asset_key, output_asset_key_replacements),
                d.op, d.partitions_def, Some(d.partition_mappings))
    IN  IF r.status = "raise" THEN r
        ELSE Ok([objs |-> [defs |-> [r.value.objs.defs EXCEPT
                                        ![self] = r.value.objs.defs[r.value.ref]],
                           heap |-> r.value.objs.heap],
                 ref |-> r.value.ref])

\* with_replaced_asset_keys, but handing on no partition mappings
with_replaced_asset_keys_no_mappings(objs, self, output_asset_key_replacements, input_asset_key_replacements) ==
    LET d == objs.defs[self]
    IN  AssetsDefinition__init__(
            objs,
            ReplacedNames(d.input_defs_by_asset_key, input_asset_key_replacements),
            ReplacedNames(d.output_defs_by_asset_key, output_asset_key_replacements),
            d.op, d.partitions_def, None)

with_replaced_asset_keys(objs, self, output_asset_key_replacements, input_asset_key_replacements) ==
    LET d == objs.defs[self]
    IN  AssetsDefinition__init__(
            objs,
            ReplacedNames(d.input_defs_by_asset_key, input_asset_key_replacements),
            ReplacedNames(d.output_defs_by_asset_key, output_asset_key_replacements),
            OpWithReplacedAssetKeys(d.op, output_asset_key_replacements,
                                    input_asset_key_replacements),
            d.partitions_def,
            Some(d.partition_mappings))

(***************************************************************************)
(* decorators.py: the asset builder                                        *)
(***************************************************************************)
\* _Asset(...)(fn). partition_mappings: Optional function name -> mapping.
\* The builder hands the constructor its maps keyed by port name
\* (decorators.py 215-218); the constructor of assets.py takes them keyed by
\* asset key, so the maps are turned round where they are handed over.
Asset__call__(objs, asset_name, namespace, ins, non_argument_deps_order, partitions_def, partition_mappings, fn_params, names_order) ==
    LET built == build_asset_ins(fn_params, namespace, ins, names_order,
                                 non_argument_deps_order)
    IN  IF built.status = "raise" THEN built
        ELSE
        LET asset_ins == built.value
            out_asset_key == FilterNone(namespace \o <<asset_name>>)
            \* _Op(ins=dict(asset_ins.values()), out=out)(fn)
            op == [input_dict |-> {asset_ins[i][2][1] : i \in DOMAIN asset_ins}
                                  \cup SeqSet(_get_input_param_names(fn_params)),
                   output_dict |-> {"result"}]
            asset_key_by_input_name ==
                DictFromItems(<<>>,
                    [i \in DOMAIN asset_ins |-> <<asset_ins[i][2][1], asset_ins[i][1]>>])
            asset_key_by_output_name == <<<<"result", out_asset_key>>>>
            truthy == partition_mappings # None /\ DOMAIN partition_mappings[1] # {}
            kept == {i \in DOMAIN asset_ins :
                        truthy /\ asset_ins[i][2][1] \in DOMAIN partition_mappings[1]}
            mappings ==
                [k \in {asset_ins[i][1] : i \in kept} |->
                    partition_mappings[1][
                        asset_ins[CHOOSE i \in kept : asset_ins[i][1] = k][2][1]]]
            objs1 == IF truthy
                     THEN [objs EXCEPT !.heap = Append(objs.heap, mappings)]
                     ELSE objs
        IN  AssetsDefinition__init__(
                objs1,
                [i \in DOMAIN asset_key_by_input_name |->
                    <<asset_key_by_input_name[i][2], asset_key_by_input_name[i][1]>>],
                [i \in DOMAIN asset_key_by_output_name |->
                    <<asset_key_by_output_name[i][2], asset_key_by_output_name[i][1]>>],
                op, partitions_def,
                IF truthy THEN Some(Len(objs1.heap)) ELSE None)

(***************************************************************************)
(* Inputs of the inference calls                                           *)
(***************************************************************************)
ParamNames == {"context", "a", "b", "a_b"}
ParamLists == DistinctSeqs(ParamNames, MaxParams)
Namespaces == {None, <<"ns">>}
OverrideKeys == {<<"b">>, <<"ns", "A">>}
AssetIns == [asset_key : {None} \cup {Some(k) : k \in OverrideKeys},
             namespace : Namespaces]
OverrideDomains == {D \in SUBSET ParamNames : Cardinality(D) <= MaxOverrides}
DepKeys == {<<"a", "b">>, <<"a_b">>}

NoCall == [op |-> "none"]

Init ==
    /\ call = NoCall
    /\ defs = <<>>
    /\ heap = <<>>
    /\ log = <<>>

BuildAssetIns ==
    /\ call = NoCall
    /\ \E fn_params \in ParamLists, asset_namespace \in Namespaces,
       D \in OverrideDomains, non_argument_deps \in SUBSET DepKeys :
      \E asset_ins \in [D -> AssetIns] :
        LET all_input_names == SeqSet(_get_input_param_names(fn_params)) \cup D
        IN  \E names_order \in Orders(all_input_names),
               deps_order \in Orders(non_argument_deps) :
              /\ call' = [op |-> "build_asset_ins",
                          fn_params |-> fn_params,
                          asset_namespace |-> asset_namespace,
                          asset_ins |-> asset_ins,
                          non_argument_deps |-> non_argument_deps,
                          result |-> build_asset_ins(fn_params, asset_namespace,
                                                     asset_ins, names_order,
                                                     deps_order)]
              /\ UNCHANGED <<defs, heap, log>>

OpIns == {{}, {"a"}, {"dep"}}
InputKeyTables ==
    UNION {[D -> OverrideKeys] : D \in OverrideDomains}

InferInputs ==
    /\ call = NoCall
    /\ \E params \in ParamLists, ins \in OpIns, table \in InputKeyTables :
          /\ call' = [op |-> "_infer_asset_key_by_input_name",
                      fn_params |-> params,
                      op_ins |-> ins,
                      asset_key_by_input_name |-> table,
                      result |-> _infer_asset_key_by_input_name(
                                    [params |-> params, ins |-> ins, outs |-> <<>>],
                                    table)]
          /\ UNCHANGED <<defs, heap, log>>

OutNames == {"o1", "o2", "o3"}
OutKeys == {<<"o2">>, <<"x">>}
Outs == [asset_key : {None} \cup {Some(k) : k \in OutKeys}]
OutDicts == Dicts(OutNames, Outs, MaxOuts)
OutKeyTables == Dicts(OutNames, OutKeys, MaxOuts)

BuildAssetOuts ==
    /\ call = NoCall
    /\ \E outs \in OutDicts,
          table \in {None} \cup {Some(t) : t \in OutKeyTables} :
          /\ call' = [op |-> "build_asset_outs",
                      outs |-> outs,
                      out_name_to_asset_key |-> table,
                      result |-> Ok(build_asset_outs("op", outs, <<>>, table))]
          /\ UNCHANGED <<defs, heap, log>>

InferOutputs ==
    /\ call = NoCall
    /\ \E op_outs \in DistinctSeqs(OutNames, MaxOuts), table \in OutKeyTables :
          /\ call' = [op |-> "_infer_asset_key_by_output_name",
                      op_outs |-> op_outs,
                      asset_key_by_output_name |-> table,
                      result |-> _infer_asset_key_by_output_name(
                                    [params |-> <<>>, ins |-> {}, outs |-> op_outs],
                                    table)]
          /\ UNCHANGED <<defs, heap, log>>

NextInfer ==
    \/ BuildAssetIns
    \/ InferInputs
    \/ BuildAssetOuts
    \/ InferOutputs

SpecInfer == Init /\ [][NextInfer]_vars

(***************************************************************************)
(* Building, renaming and querying definitions                             *)
(***************************************************************************)
KeyA == <<"a">>
KeyB == <<"b">>
KeyX == <<"x">>
KeyY == <<"y">>
NoReplacements == <<>>
Only(k, v) == [key \in {k} |-> v]

\* the functions the asset builder decorates, and their settings
AssetFnParams == {<<"a">>, <<"context", "a", "b">>}
PartitionsDefs == {None, Some("daily")}
NamedPartitionMappings == {None, Some([n \in {"a"} |-> "M1"])}

\* what AssetsDefinition(...) is called with directly
ConstructInputs == {<<<<KeyA, "a">>, <<KeyB, "b">>>>}
ConstructOutputs == {<<<<KeyA, "o1">>>>, <<<<KeyA, "o1">>, <<KeyB, "o2">>>>}
ConstructOps == {[input_dict |-> {"a", "b"}, output_dict |-> {"o1", "o2"}],
                 [input_dict |-> {"a", "b"}, output_dict |-> {"o1"}],
                 [input_dict |-> {"a"}, output_dict |-> {"o1", "o2"}]}
ConstructPartitioning ==
    {[partitions_def |-> None, mappings |-> None],
     [partitions_def |-> Some("daily"), mappings |-> None],
     [partitions_def |-> Some("daily"), mappings |-> Some(Only(KeyA, "M1"))]}

\* the substitution tables tried: <<output table, input table>>
ReplacementPairs ==
    {<<NoReplacements, NoReplacements>>,
     <<NoReplacements, Only(KeyA, KeyX)>>,
     <<NoReplacements, Only(KeyB, KeyY)>>,
     <<NoReplacements, Only(KeyA, KeyB)>>,
     <<NoReplacements, [k \in {KeyA, KeyB} |-> KeyX]>>,
     <<Only(KeyA, KeyX), NoReplacements>>,
     <<Only(KeyA, KeyB), NoReplacements>>,
     <<Only(KeyA, KeyX), Only(KeyA, KeyY)>>}
QueryKeys == {KeyA, KeyX, KeyY}

QueryOps == {"asset_key", "get_partition_mapping"}
\* a query leaves the store as it is: what follows it is what would follow
\* the state it was made in, so calls are made from states that hold no query
NoQuery == call.op \notin QueryOps
Objs == [defs |-> defs, heap |-> heap]

Asset ==
    /\ NoQuery
    /\ defs = <<>>
    /\ \E fn_params \in AssetFnParams, partitions_def \in PartitionsDefs,
          partition_mappings \in NamedPartitionMappings :
        \E names_order \in Orders(SeqSet(_get_input_param_names(fn_params))) :
          LET r == Asset__call__(Objs, "a", None, <<>>, <<>>, partitions_def,
                                 partition_mappings, fn_params, names_order)
          IN  /\ r.status = "ok"
              /\ call' = [op |-> "asset", result |-> Ok(r.value.ref)]
              /\ defs' = r.value.objs.defs
              /\ heap' = r.value.objs.heap
              /\ log' = Append(log, [how |-> "asset",
                                     partition_mappings |-> partition_mappings])

Construct ==
    /\ NoQuery
    /\ defs = <<>>
    /\ \E inputs \in ConstructInputs, outputs \in ConstructOutputs,
          op \in ConstructOps, p \in ConstructPartitioning :
          LET \* the caller's own partition_mappings dict
              objs0 == IF p.mappings = None THEN Objs
                       ELSE [Objs EXCEPT !.heap = Append(heap, p.mappings[1])]
              r == AssetsDefinition__init__(
                      objs0, inputs, outputs, op, p.partitions_def,
                      IF p.mappings = None THEN None ELSE Some(Len(objs0.heap)))
          IN  \/ /\ r.status = "ok"
                 /\ call' = [op |-> "AssetsDefinition", inputs |-> inputs,
                             outputs |-> outputs, ports |-> op,
                             result |-> Ok(r.value.ref)]
                 /\ defs' = r.value.objs.defs
                 /\ heap' = r.value.objs.heap
                 /\ log' = Append(log, [how |-> "construct"])
              \/ /\ r.status = "raise"
                 /\ call' = [op |-> "AssetsDefinition", inputs |-> inputs,
                             outputs |-> outputs, ports |-> op, result |-> r]
                 /\ UNCHANGED <<defs, heap, log>>

WithReplacedAssetKeys ==
    /\ NoQuery
    /\ Len(defs) < MaxDefs
    /\ \E self \in DOMAIN defs, pair \in ReplacementPairs :
          LET r == with_replaced_asset_keys(Objs, self, pair[1], pair[2])
          IN  /\ r.status = "ok"
              /\ call' = [op |-> "with_replaced_asset_keys",
                          result |-> Ok(r.value.ref)]
              /\ defs' = r.value.objs.defs
              /\ heap' = r.value.objs.heap
              /\ log' = Append(log, [how |-> "replace", self |-> self,
                                     output_asset_key_replacements |-> pair[1],
                                     input_asset_key_replacements |-> pair[2],
                                     ref |-> r.value.ref])

AssetKeyQuery ==
    /\ NoQuery
    /\ \E self \in DOMAIN defs :
          call' = [op |-> "asset_key", self |-> self,
                   result |-> asset_key(Objs, self)]
    /\ UNCHANGED <<defs, heap, log>>

GetPartitionMapping ==
    /\ NoQuery
    /\ \E self \in DOMAIN defs, in_asset_key \in QueryKeys :
          call' = [op |-> "get_partition_mapping", self |-> self,
                   in_asset_key |-> in_asset_key,
                   result |-> get_partition_mapping(Objs, self, in_asset_key)]
    /\ UNCHANGED <<defs, heap, log>>

Next ==
    \/ Asset
    \/ Construct
    \/ WithReplacedAssetKeys
    \/ AssetKeyQuery
    \/ GetPartitionMapping

Spec == Init /\ [][Next]_vars

(***************************************************************************)
(* Properties of port inference                                            *)
(***************************************************************************)
ContextNames == {"_", "context", "_context", "context_"}
\* the parameters that stand for inputs: all but a leading context parameter
NonContextParams(fn_params) ==
    IF fn_params # <<>> /\ fn_params[1] \in ContextNames
    THEN Tail(fn_params) ELSE fn_params

IsInputInference ==
    call.op \in {"build_asset_ins", "_infer_asset_key_by_input_name"}
OverrideNamesOfCall ==
    IF call.op = "build_asset_ins" THEN DOMAIN call.asset_ins
    ELSE DOMAIN call.asset_key_by_input_name
OverrideMismatch ==
    \E n \in OverrideNamesOfCall : n \notin SeqSet(NonContextParams(call.fn_params))

\* C1: input port inference (build_asset_ins, _infer_asset_key_by_input_name)
\* raises DagsterInvalidDefinitionError, and returns nothing, whenever the
\* override table holds a name that is not a parameter name once the leading
\* context parameter is stripped.
C1_OverrideMismatchRaises ==
    (IsInputInference /\ OverrideMismatch)
        => call.result = Raise(DagsterInvalidDefinitionError)

\* an override naming the stripped context parameter itself has been refused
C1_Witness ==
    /\ call.op = "build_asset_ins"
    /\ call.fn_params = <<"context", "a">>
    /\ DOMAIN call.asset_ins = {"context"}
    /\ call.result.status = "raise"

\* the key the documented rule gives parameter n of a build_asset_ins call
ExpectedInKey(n) ==
    IF n \in DOMAIN call.asset_ins /\ call.asset_ins[n].asset_key # None
    THEN call.asset_ins[n].asset_key[1]
    ELSE IF n \in DOMAIN call.asset_ins /\ call.asset_ins[n].namespace # None
    THEN call.asset_ins[n].namespace \o <<n>>
    ELSE call.asset_namespace \o <<n>>

\* C2: with a valid override table and no dependency-only keys,
\* build_asset_ins returns exactly one entry per non-context parameter, named
\* after the parameter and keyed by the override's explicit key, or else by
\* [name] under the override's namespace or else the default namespace.
C2_OneEntryPerParameter ==
    (/\ call.op = "build_asset_ins"
     /\ call.result.status = "ok"
     /\ call.non_argument_deps = {})
        => LET ps == NonContextParams(call.fn_params)
               r == call.result.value
           IN  /\ Len(r) = Len(ps)
               /\ \A n \in SeqSet(ps) :
                     \E i \in DOMAIN r : r[i][2][1] = n /\ r[i][1] = ExpectedInKey(n)

\* C3: output port inference gives every declared output port exactly one
\* key: the explicit key given for it (by the Out's asset_key or by the
\* name-to-key table), otherwise [port name]; no declared port is dropped.
C3_OneKeyPerDeclaredOutput ==
    /\ call.op = "build_asset_outs" =>
            LET r == call.result.value
            IN  \A i \in DOMAIN call.outs :
                  LET n == call.outs[i][1]
                      table == IF call.out_name_to_asset_key = None THEN <<>>
                               ELSE call.out_name_to_asset_key[1]
                      explicit ==
                          {DictGet(table, n, None)} \cup
                          {IF call.outs[i][2].asset_key # None
                           THEN call.outs[i][2].asset_key[1] ELSE None}
                      allowed == IF explicit = {None} THEN {<<n>>}
                                 ELSE explicit \ {None}
                      got == {j \in DOMAIN r : r[j][2][1] = n}
                  IN  /\ Cardinality(got) = 1
                      /\ \A j \in got : r[j][1] \in allowed
    /\ (call.op = "_infer_asset_key_by_output_name" /\ call.result.status = "ok") =>
            LET r == call.result.value
            IN  \A n \in SeqSet(call.op_outs) :
                  /\ DictHas(r, n)
                  /\ DictGet(r, n, None) =
                        DictGet(call.asset_key_by_output_name, n, <<n>>)

\* C4: build_asset_ins never returns two distinct keys with the same local
\* port name; it raises instead.
C4_NoDuplicatePortNames ==
    (call.op = "build_asset_ins" /\ call.result.status = "ok")
        => LET r == call.result.value
           IN  \A i, j \in DOMAIN r : i # j => r[i][2][1] # r[j][2][1]
(***************************************************************************)
(* Properties of definitions                                               *)
(***************************************************************************)
InputItems(d) ==
    {<<d.input_defs_by_asset_key[i][1], d.input_defs_by_asset_key[i][2].name>> :
        i \in DOMAIN d.input_defs_by_asset_key}
OutputItems(d) ==
    {<<d.output_defs_by_asset_key[i][1], d.output_defs_by_asset_key[i][2].name>> :
        i \in DOMAIN d.output_defs_by_asset_key}
InputKeys(d) == DictKeys(d.input_defs_by_asset_key)
OutputKeys(d) == DictKeys(d.output_defs_by_asset_key)

\* what a reader of definition i can see: its keys with their port names
\* (dicts compare without order), its partitioning, its partition mappings
\* and the mapping it answers for each input key
Observable(objs, i) ==
    LET d == objs.defs[i]
    IN  [inputs |-> InputItems(d),
         outputs |-> OutputItems(d),
         partitions_def |-> d.partitions_def,
         partition_mappings |-> objs.heap[d.partition_mappings],
         answers |-> [k \in InputKeys(d) |-> get_partition_mapping(objs, i, k)]]

\* every field of definition i, the dict behind its reference included
Fields(objs, i) ==
    [self |-> objs.defs[i],
     partition_mappings |-> objs.heap[objs.defs[i].partition_mappings]]

IsReplace(j) == j \in DOMAIN log /\ log[j].how = "replace"
\* the definition that definition i was first built as
RECURSIVE Root(_)
Root(i) == IF log[i].how = "replace" THEN Root(log[i].self) ELSE i

Range(f) == {f[k] : k \in DOMAIN f}
\* two tables over unrelated keys: neither reads nor writes a key of the other
Unrelated(S1, S2) ==
    (DOMAIN S1 \cup Range(S1)) \cap (DOMAIN S2 \cup Range(S2)) = {}
\* the table that does S1 and then S2
Compose(S1, S2) ==
    [k \in DOMAIN S1 \cup DOMAIN S2 |-> Replaced(S2, Replaced(S1, k))]
\* definition j came from i = log[j].self by tables unrelated to those that
\* i itself came by
UnrelatedChain(j) ==
    /\ IsReplace(j)
    /\ IsReplace(log[j].self)
    /\ Unrelated(log[log[j].self].output_asset_key_replacements,
                 log[j].output_asset_key_replacements)
    /\ Unrelated(log[log[j].self].input_asset_key_replacements,
                 log[j].input_asset_key_replacements)

\* C6: renaming by S1 and then by S2, tables with disjoint domains over
\* unrelated keys, gives the same observable definition as renaming once by
\* the composed table.
C6_Compositional ==
    \A j \in DOMAIN defs :
        UnrelatedChain(j) =>
            LET i == log[j].self
                once == with_replaced_asset_keys(
                            Objs, log[i].self,
                            Compose(log[i].output_asset_key_replacements,
                                    log[j].output_asset_key_replacements),
                            Compose(log[i].input_asset_key_replacements,
                                    log[j].input_asset_key_replacements))
            IN  /\ once.status = "ok"
                /\ Observable(once.value.objs, once.value.ref) = Observable(Objs, j)

\* two inputs were renamed one after the other, a to x and then b to y
C6_Witness ==
    \E j \in DOMAIN defs :
        /\ UnrelatedChain(j)
        /\ log[log[j].self].input_asset_key_replacements = Only(KeyA, KeyX)
        /\ log[j].input_asset_key_replacements = Only(KeyB, KeyY)
        /\ InputKeys(defs[j]) = {KeyX, KeyY}

\* C7: the definition returned has every output key replaced by the output
\* table or kept, every input key replaced by the input table or kept, each
\* under the port name it had, and neither table touches the other's keys.
C7_KeysReplacedNamesKept ==
    \A j \in DOMAIN defs :
        IsReplace(j) =>
            LET old == defs[log[j].self]
            IN  /\ InputItems(defs[j]) =
                      {<<Replaced(log[j].input_asset_key_replacements, it[1]), it[2]>> :
                          it \in InputItems(old)}
                /\ OutputItems(defs[j]) =
                      {<<Replaced(log[j].output_asset_key_replacements, it[1]), it[2]>> :
                          it \in OutputItems(old)}

\* C8: renaming with two empty tables gives a definition that a reader
\* cannot tell from the receiver.
C8_EmptyTablesIdentity ==
    \A j \in DOMAIN defs :
        (/\ IsReplace(j)
         /\ log[j].output_asset_key_replacements = NoReplacements
         /\ log[j].input_asset_key_replacements = NoReplacements)
            => Observable(Objs, j) = Observable(Objs, log[j].self)

\* a partitioned definition with an explicit mapping was renamed by two
\* empty tables
C8_Witness ==
    \E j \in DOMAIN defs :
        /\ IsReplace(j)
        /\ log[j].output_asset_key_replacements = NoReplacements
        /\ log[j].input_asset_key_replacements = NoReplacements
        /\ defs[log[j].self].partitions_def # None
        /\ DOMAIN heap[defs[log[j].self].partition_mappings] # {}

\* C9: no call changes a definition that exists: with_replaced_asset_keys
\* leaves its receiver, and every other definition, with the fields it had.
C9_ReceiverUnchanged ==
    [][\A i \in DOMAIN defs :
          /\ i \in DOMAIN defs'
          /\ Fields([defs |-> defs', heap |-> heap'], i) = Fields(Objs, i)]_vars

\* a definition was renamed, the copy was renamed in turn, and the two share
\* the dict of partition mappings of the first
C9_Witness ==
    /\ Len(defs) = 3
    /\ IsReplace(2) /\ log[2].self = 1
    /\ IsReplace(3) /\ log[3].self = 2
    /\ log[2].input_asset_key_replacements # NoReplacements
    /\ defs[3].partition_mappings = defs[1].partition_mappings
    /\ DOMAIN heap[defs[1].partition_mappings] # {}

\* C10: asset_key gives the sole output key of a definition with exactly one
\* output key and fails on a definition with two or more.
C10_SingleKey ==
    call.op = "asset_key" =>
        LET keys == OutputKeys(defs[call.self])
        IN  /\ Cardinality(keys) = 1 => \E k \in keys : call.result = Ok(k)
            /\ Cardinality(keys) >= 2 => call.result.status = "raise"

\* asset_key was asked of a definition with two output keys and failed
C10_Witness ==
    /\ call.op = "asset_key"
    /\ OutputKeys(defs[call.self]) = {KeyA, KeyB}
    /\ call.result = Raise(CheckError)

\* C11: get_partition_mapping(k) fails with the not-partitioned error for
\* every key k, input or not, of a definition without partitioning; with
\* partitioning it gives the explicit mapping stored for k if there is one
\* and the default mapping of the partitioning otherwise.
C11_PartitionMappingFor ==
    call.op = "get_partition_mapping" =>
        LET d == defs[call.self]
            stored == heap[d.partition_mappings]
        IN  IF d.partitions_def = None
            THEN call.result = Raise(CheckError)
            ELSE IF call.in_asset_key \in DOMAIN stored
            THEN call.result = Ok(stored[call.in_asset_key])
            ELSE call.result = Ok("default")

\* a definition without partitioning was asked for the mapping of a key
\* that is none of its inputs, and failed
C11_Witness ==
    /\ call.op = "get_partition_mapping"
    /\ defs[call.self].partitions_def = None
    /\ call.in_asset_key \notin InputKeys(defs[call.self])
    /\ call.result = Raise(CheckError)

\* the port names a map of keys to names uses
NamesUsed(names_by_asset_key) ==
    {names_by_asset_key[i][2] : i \in DOMAIN names_by_asset_key}
PortNames(defs_by_asset_key) ==
    {defs_by_asset_key[i][2].name : i \in DOMAIN defs_by_asset_key}

\* C12: constructing a definition fails, and leaves no definition behind,
\* whenever a key of the input map or of the output map names a port the
\* computation does not declare; every definition that exists has each of
\* its input and output keys bound to a port its computation declares.
C12_UndeclaredPortRefused ==
    /\ call.op = "AssetsDefinition" =>
          ((\/ ~(NamesUsed(call.inputs) \subseteq call.ports.input_dict)
            \/ ~(NamesUsed(call.outputs) \subseteq call.ports.output_dict))
              => (call.result.status = "raise" /\ defs = <<>>))
    /\ \A i \in DOMAIN defs :
          /\ PortNames(defs[i].input_defs_by_asset_key) \subseteq defs[i].op.input_dict
          /\ PortNames(defs[i].output_defs_by_asset_key) \subseteq defs[i].op.output_dict

\* the constructor was given an output map that names o2 and a computation
\* that declares only o1, and it failed
C12_Witness ==
    /\ call.op = "AssetsDefinition"
    /\ "o2" \in NamesUsed(call.outputs)
    /\ "o2" \notin call.ports.output_dict
    /\ call.result = Raise(KeyError)
    /\ defs = <<>>

\* C13: a definition derived by with_replaced_asset_keys, whatever the
\* tables, has as many input keys and output keys as its receiver and the
\* same input and output port names; no port disappears and the output map
\* is never empty, also when a table makes two keys equal.
C13_PortsPreserved ==
    \A j \in DOMAIN defs :
        IsReplace(j) =>
            LET old == defs[log[j].self]
                new == defs[j]
            IN  /\ Len(new.input_defs_by_asset_key) = Len(old.input_defs_by_asset_key)
                /\ Len(new.output_defs_by_asset_key) = Len(old.output_defs_by_asset_key)
                /\ PortNames(new.input_defs_by_asset_key)
                       = PortNames(old.input_defs_by_asset_key)
                /\ PortNames(new.output_defs_by_asset_key)
                       = PortNames(old.output_defs_by_asset_key)
                /\ new.output_defs_by_asset_key # <<>>
====
